---- MODULE Spec2Model ----
(***************************************************************************)
(* Model of the real-time relay of mehdidouyeb/backend:                    *)
(*   src/handlers/socketHandlers.js  (SocketHandlers)                      *)
(*   src/models/Message.js           (Message, User)                       *)
(*   src/unnamed/part_005            (SocketAuthService)                   *)
(*   src/unnamed/part_004            (AuthService)                         *)
(*   src/server.js                   (startServer)                         *)
(* Every socket event handler is an async function: its synchronous prefix *)
(* and each continuation after an await are one action each, so handlers   *)
(* of the same or of different sockets interleave at their awaits.         *)
(***************************************************************************)
EXTENDS Integers, Sequences, FiniteSets, TLC

(* ------------------------------ bounds -------------------------------- *)

\* Total number of protocol events (send_message, join_chat,
\* get_chat_history) dispatched to handlers in one behaviour.
MaxReqs == 2

(* ------------------------- program constants -------------------------- *)

\* handleGetChatHistory: const { other_user_id, limit = 50 } = data
DefaultLimit == 50

(* ------------------------------ universe ------------------------------ *)

Conns == {"c1", "c2", "c3"}
NoConn == "none"

\* Rows of the users table (ids), and an id that names no row.
Users == {1, 2, 3}
GhostId == Cardinality(Users) + 1
\* A to_user_id / other_user_id that is undefined (or any falsy value);
\* also socket.userId before authenticateSocket has set it.
NoId == Cardinality({})

\* username column of the users table / username claim of the token
Username(u) == <<"name", u>>

\* Values of the `message` field of a send_message payload.  A string is
\* the sequence of its characters.
Undef == [kind |-> "undefined", chars |-> <<>>]
Num == [kind |-> "number", chars |-> <<>>]
Str(s) == [kind |-> "string", chars |-> s]

\* The payload argument when the client emits the event with no argument.
NoPayload == [absent |-> TRUE]
HasPayload(data) == "absent" \notin DOMAIN data

(* handshake.auth.token values *)
NoName == <<>>
NoToken == [kind |-> "none", id |-> NoId, username |-> NoName]
BadToken == [kind |-> "bad", id |-> NoId, username |-> NoName]
TokenFor(u) == [kind |-> "ok", id |-> u, username |-> Username(u)]
\* socket.handshake before the client's handshake has arrived
NoHandshake == [kind |-> "unset", id |-> NoId, username |-> NoName]

\* The credential each socket of the model may present at its handshake.
Credentials(c) ==
    CASE c = "c1" -> {TokenFor(1)}
      [] c = "c2" -> {TokenFor(2), BadToken}
      [] OTHER    -> {TokenFor(3), TokenFor(1), NoToken}

\* The sockets whose clients emit protocol events; the third socket only
\* connects, receives and disconnects.
Clients == {"c1", "c2"}

\* send_message payloads the client of socket c emits
SendPayloads(c) ==
    IF c = "c1"
    THEN { NoPayload,
           [to_user_id |-> NoId,    message |-> Str(<<"a">>)],
           [to_user_id |-> 2,       message |-> Num],
           [to_user_id |-> 2,       message |-> Str(<<>>)],
           [to_user_id |-> 2,       message |-> Str(<<" ">>)],
           [to_user_id |-> 3,       message |-> Str(<<"a", " ">>)],
           [to_user_id |-> GhostId, message |-> Str(<<"a">>)] }
    ELSE { \* with a from_user_id field of its own, naming another user
           [to_user_id |-> 1,       message |-> Str(<<" ", "a">>),
            from_user_id |-> 3],
           [to_user_id |-> 3,       message |-> Str(<<"b">>)] }

\* join_chat payloads the client of socket c emits
JoinPayloads(c) ==
    IF c = "c1"
    THEN { NoPayload,
           [other_user_id |-> NoId],
           [other_user_id |-> 1],
           [other_user_id |-> 2],
           [other_user_id |-> GhostId] }
    ELSE { [other_user_id |-> 1] }

\* limit: 0 in a get_chat_history payload
ZeroLimit == DefaultLimit - DefaultLimit
\* A limit far above any number of rows the table holds
HugeLimit == DefaultLimit * DefaultLimit

\* get_chat_history payloads the client of socket c emits
HistPayloads(c) ==
    IF c = "c1"
    THEN { NoPayload,
           [other_user_id |-> NoId],
           [other_user_id |-> 2],
           [other_user_id |-> 2, limit |-> 2],
           [other_user_id |-> 2, limit |-> ZeroLimit],
           [other_user_id |-> 2, limit |-> HugeLimit] }
    ELSE { [other_user_id |-> 1] }

(* --------------------------- pure helpers ----------------------------- *)

IsSpace(ch) == ch = " "

RECURSIVE TrimStart(_)
TrimStart(s) ==
    IF s # <<>> /\ IsSpace(Head(s)) THEN TrimStart(Tail(s)) ELSE s

RECURSIVE TrimEnd(_)
TrimEnd(s) ==
    IF s # <<>> /\ IsSpace(s[Len(s)])
    THEN TrimEnd(SubSeq(s, 1, Len(s) - 1))
    ELSE s

\* String.prototype.trim
Trim(s) == TrimEnd(TrimStart(s))

\* JavaScript truthiness of a payload's message field / id field
Truthy(m) == \/ m.kind = "number"
             \/ m.kind = "string" /\ m.chars # <<>>
TruthyId(i) == i # NoId

\* One room for the sockets of all users
getUserRoomShared(userId) == <<"user", NoId>>

\* socketAuthService.getUserRoom: `user_${userId}`
getUserRoom(userId) == <<"user", userId>>

Min(a, b) == IF a <= b THEN a ELSE b
Max(a, b) == IF a >= b THEN a ELSE b

\* The room name built from the two ids in the order given, without sorting
getChatRoomUnsorted(userId1, userId2) == <<"chat", userId1, userId2>>

\* socketAuthService.getChatRoom: sort the two ids ascending, then
\* `chat_${sortedIds[0]}_${sortedIds[1]}`
getChatRoom(userId1, userId2) ==
    <<"chat", Min(userId1, userId2), Max(userId1, userId2)>>

(* ------------------------------ the store ----------------------------- *)

\* A row of the messages table.
Row(id, from, to, text, ts) ==
    [id |-> id, from_user_id |-> from, to_user_id |-> to,
     message |-> text, timestamp |-> ts]

\* The messages table a server may find at start-up: empty, or a backlog of
\* n messages exchanged by users 1 and 2 (odd ids 1 -> 2, even ids 2 -> 1).
Backlog(n) ==
    [i \in 1..n |->
        Row(i, IF i % 2 = 1 THEN 1 ELSE 2, IF i % 2 = 1 THEN 2 ELSE 1,
            <<"a">>, i)]

LastTimestamp(st) == IF st = <<>> THEN 0 ELSE st[Len(st)].timestamp

\* An INSERT that gives the new row the id of the last row of the table
InsertRowReusedId(st, from, to, text, ts) ==
    Append(st, Row(Max(Len(st), 1), from, to, text, ts))

\* INSERT INTO messages ... RETURNING ...: id from the SERIAL column,
\* timestamp from DEFAULT CURRENT_TIMESTAMP (ts, read off the store clock).
InsertRow(st, from, to, text, ts) ==
    Append(st, Row(Len(st) + 1, from, to, text, ts))

\* findById that hands back a row for whatever id it is given
findByIdAny(id) == [id |-> id, username |-> Username(id)]

\* User.findById: SELECT ... FROM users WHERE id = $1; rows[0] || null
findById(id) == IF id \in Users THEN [id |-> id, username |-> Username(id)]
                ELSE [id |-> NoId, username |-> <<>>]
Found(user) == user.id # NoId

\* ORDER BY m.timestamp ASC: rows of equal timestamp keep their table order.
RECURSIVE InsertByTimestamp(_, _)
InsertByTimestamp(sorted, r) ==
    IF sorted = <<>> THEN <<r>>
    ELSE IF sorted[Len(sorted)].timestamp <= r.timestamp
         THEN Append(sorted, r)
         ELSE Append(InsertByTimestamp(SubSeq(sorted, 1, Len(sorted) - 1), r),
                     sorted[Len(sorted)])

RECURSIVE OrderByTimestampAsc(_)
OrderByTimestampAsc(rows) ==
    IF rows = <<>> THEN <<>>
    ELSE InsertByTimestamp(
             OrderByTimestampAsc(SubSeq(rows, 1, Len(rows) - 1)),
             rows[Len(rows)])

\* LIMIT $3 (limit >= 0): the first `limit` rows of the ordered result.
LimitRows(rows, limit) == SubSeq(rows, 1, Min(limit, Len(rows)))

\* The WHERE clause testing only that userId2 is a party of the row
InConversationOtherOnly(m, userId1, userId2) ==
    m.from_user_id = userId2 \/ m.to_user_id = userId2

\* The WHERE clause testing only that userId1 is a party of the row
InConversationAnyPeer(m, userId1, userId2) ==
    m.from_user_id = userId1 \/ m.to_user_id = userId1

\* The WHERE clause with its second disjunct left out
InConversationOneWay(m, userId1, userId2) ==
    m.from_user_id = userId1 /\ m.to_user_id = userId2

\* WHERE (from = $1 AND to = $2) OR (from = $2 AND to = $1)
InConversation(m, userId1, userId2) ==
    \/ m.from_user_id = userId1 /\ m.to_user_id = userId2
    \/ m.from_user_id = userId2 /\ m.to_user_id = userId1

\* SELECT m.*, u.username AS from_username ... JOIN users u
HistoryRow(m) ==
    [id |-> m.id, from_user_id |-> m.from_user_id,
     to_user_id |-> m.to_user_id, message |-> m.message,
     timestamp |-> m.timestamp, from_username |-> Username(m.from_user_id)]

\* Message.getChatHistory(userId1, userId2, limit) evaluated on table st
getChatHistory(st, userId1, userId2, limit) ==
    LET Match(m) == InConversation(m, userId1, userId2) /\ m.from_user_id \in Users
        ordered == OrderByTimestampAsc(SelectSeq(st, Match))
        limited == LimitRows(ordered, limit)
    IN  [i \in 1..Len(limited) |-> HistoryRow(limited[i])]

(* ------------------------------- state -------------------------------- *)

VARIABLES
    connState,       \* socket -> "connecting" | "active" | "terminated"
    handshake,       \* socket -> socket.handshake.auth.token it presented
    owner,           \* socket -> socket.userId (NoId until admission)
    username,        \* socket -> socket.username (NoName until admission)
    rejected,        \* socket -> reason passed to next(err), "" if none
    rooms,           \* socket -> rooms of the adapter that hold the socket
    connectedUsers,  \* this.connectedUsers: userId -> socketId (NoConn: no key)
    store,           \* the messages table, in insertion order
    reqs,            \* handler invocations, in the order they were dispatched
    inbox            \* socket -> events its client has received, in order

vars == <<connState, handshake, owner, username, rejected, rooms, connectedUsers, store, reqs, inbox>>

NoEvent == [type |-> "none"]
NoRow == [id |-> NoId]
NoUser == findById(NoId)

ErrorEvent(text) == [type |-> "error", message |-> text]

\* messageObject taking from_user_id from the payload when it has one
MessageEventFromPayload(type, c, data, recipient, saved) ==
    [type |-> type,
     id |-> saved.id,
     from_user_id |-> IF "from_user_id" \in DOMAIN data
                      THEN data.from_user_id ELSE owner[c],
     from_username |-> username[c],
     to_user_id |-> data.to_user_id,
     to_username |-> recipient.username,
     message |-> saved.message,
     timestamp |-> saved.timestamp]

\* messageObject of handleSendMessage, emitted under event name `type`
MessageEvent(type, c, data, recipient, saved) ==
    [type |-> type,
     id |-> saved.id,
     from_user_id |-> owner[c],
     from_username |-> username[c],
     to_user_id |-> data.to_user_id,
     to_username |-> recipient.username,
     message |-> saved.message,
     timestamp |-> saved.timestamp]

\* An emit that goes to every connected socket instead of socket c
SocketEmitAll(ib, c, ev) ==
    [d \in Conns |-> IF connState[d] = "active" THEN Append(ib[d], ev) ELSE ib[d]]

\* socket.emit(ev): the packet reaches the client only while the socket is
\* connected.
SocketEmit(ib, c, ev) ==
    IF connState[c] = "active" THEN [ib EXCEPT ![c] = Append(@, ev)] ELSE ib

\* Sockets an emit to `room` reaches: connected sockets the adapter holds
\* in the room.
RoomMembers(room) == {c \in Conns : connState[c] = "active" /\ room \in rooms[c]}

\* RoomEmit reaching the chat room of the event's sender and recipient
\* instead of the room it is given
RoomEmitConversation(ib, room, ev) ==
    [c \in Conns |->
        IF c \in RoomMembers(getChatRoom(ev.from_user_id, ev.to_user_id))
        THEN Append(ib[c], ev) ELSE ib[c]]

\* RoomEmit reaching only the socket the connectedUsers table names for
\* the room's user
RoomEmitRegistered(ib, room, ev) ==
    [c \in Conns |->
        IF c \in RoomMembers(room) /\ connectedUsers[room[2]] = c
        THEN Append(ib[c], ev) ELSE ib[c]]

\* this.io.to(room).emit(ev)
RoomEmit(ib, room, ev) ==
    [c \in Conns |-> IF c \in RoomMembers(room) THEN Append(ib[c], ev) ELSE ib[c]]

\* A dispatched handler invocation: the handler's locals (data, recipient,
\* saved: savedMessage) and its position pc, with a record of what it did:
\*   reply     the event it emitted on its own socket (NoEvent: none yet)
\*   replied   whether the socket was connected when it emitted the reply
\*   delivered the sockets its receive_message emit reached
\*   stage     the position it ended at
\*   storeOk   FALSE once the store has rejected one of its queries
\*   snapshot  the number of rows the table held when its SELECT ran
\*   after     the handlers that had ended when this one was dispatched
Req(kind, c, data, pc, reply) ==
    [kind |-> kind, conn |-> c, data |-> data, pc |-> pc,
     recipient |-> NoUser, saved |-> NoRow, reply |-> reply,
     replied |-> (reply # NoEvent /\ connState[c] = "active"),
     delivered |-> {}, stage |-> "sync", storeOk |-> TRUE, snapshot |-> 0,
     after |-> {k \in 1..Len(reqs) : reqs[k].pc = "done"}]

\* The handler h ends by emitting `ev` on its own socket; ok is FALSE when
\* it ends in its catch block because the store rejected a query.
Finish(h, ev, ok) ==
    /\ reqs' = [reqs EXCEPT ![h].pc = "done", ![h].reply = ev,
                            ![h].replied = (connState[reqs[h].conn] = "active"),
                            ![h].stage = reqs[h].pc,
                            ![h].storeOk = ok,
                            ![h].snapshot =
                                IF reqs[h].pc = "query" THEN Len(store) ELSE 0]
    /\ inbox' = SocketEmit(inbox, reqs[h].conn, ev)

Init ==
    /\ connState = [c \in Conns |-> "connecting"]
    /\ handshake = [c \in Conns |-> NoHandshake]
    /\ owner = [c \in Conns |-> NoId]
    /\ username = [c \in Conns |-> NoName]
    /\ rejected = [c \in Conns |-> ""]
    /\ rooms = [c \in Conns |-> {}]
    /\ connectedUsers = [u \in Users |-> NoConn]
    /\ store = <<>>
    /\ reqs = <<>>
    /\ inbox = [c \in Conns |-> <<>>]

(* ----------------------- admission and lifecycle ---------------------- *)

\* A verification that decodes the token without checking its signature
TokenValidUnverified(token) == token.kind \in {"ok", "bad"}

\* AuthService.verifyToken: the decoded payload, or a throw
TokenValid(token) == token.kind = "ok"

\* Admission whose connection listener also runs for a socket the
\* middleware rejected for an invalid token
ConnectUnadmitted(c, token) ==
    /\ connState[c] = "connecting"
    /\ handshake' = [handshake EXCEPT ![c] = token]
    /\ IF token.kind = "none"
       THEN /\ rejected' = [rejected EXCEPT ![c] = "Authentication error: No token provided"]
            /\ connState' = [connState EXCEPT ![c] = "terminated"]
            /\ UNCHANGED <<owner, username, rooms, connectedUsers>>
       ELSE IF ~TokenValid(token)
       THEN /\ rejected' = [rejected EXCEPT ![c] = "Authentication error: Invalid token"]
            /\ connState' = [connState EXCEPT ![c] = "active"]
            /\ rooms' = [rooms EXCEPT ![c] = @ \cup {getUserRoom(token.id)}]
            /\ UNCHANGED <<owner, username, connectedUsers>>
       ELSE /\ owner' = [owner EXCEPT ![c] = token.id]
            /\ username' = [username EXCEPT ![c] = token.username]
            /\ connState' = [connState EXCEPT ![c] = "active"]
            /\ connectedUsers' = [connectedUsers EXCEPT ![token.id] = c]
            /\ rooms' = [rooms EXCEPT ![c] = @ \cup {getUserRoom(token.id)}]
            /\ UNCHANGED rejected
    /\ UNCHANGED <<store, reqs, inbox>>

\* io.use(authenticateSocket) followed, on next(), by
\* io.on('connection') -> handleConnection(socket)
Connect(c, token) ==
    /\ connState[c] = "connecting"
    /\ handshake' = [handshake EXCEPT ![c] = token]
    /\ IF token.kind = "none"
       THEN /\ rejected' = [rejected EXCEPT ![c] = "Authentication error: No token provided"]
            /\ connState' = [connState EXCEPT ![c] = "terminated"]
            /\ UNCHANGED <<owner, username, rooms, connectedUsers>>
       ELSE IF ~TokenValid(token)
       THEN /\ rejected' = [rejected EXCEPT ![c] = "Authentication error: Invalid token"]
            /\ connState' = [connState EXCEPT ![c] = "terminated"]
            /\ UNCHANGED <<owner, username, rooms, connectedUsers>>
       ELSE /\ owner' = [owner EXCEPT ![c] = token.id]
            /\ username' = [username EXCEPT ![c] = token.username]
            /\ connState' = [connState EXCEPT ![c] = "active"]
            /\ connectedUsers' = [connectedUsers EXCEPT ![token.id] = c]
            /\ rooms' = [rooms EXCEPT ![c] = @ \cup {getUserRoom(token.id)}]
            /\ UNCHANGED rejected
    /\ UNCHANGED <<store, reqs, inbox>>

\* A disconnect handler that leaves the connectedUsers entry in place
DisconnectKeepsEntry(c) ==
    /\ connState[c] = "active"
    /\ connState' = [connState EXCEPT ![c] = "terminated"]
    /\ rooms' = [rooms EXCEPT ![c] = {}]
    /\ UNCHANGED <<handshake, owner, username, rejected, connectedUsers, store, reqs, inbox>>

\* A disconnect handler run without socket.io having taken the socket out
\* of its rooms
DisconnectKeepsRooms(c) ==
    /\ connState[c] = "active"
    /\ connState' = [connState EXCEPT ![c] = "terminated"]
    /\ connectedUsers' = [connectedUsers EXCEPT ![owner[c]] = NoConn]
    /\ UNCHANGED <<handshake, owner, username, rejected, rooms, store, reqs, inbox>>

\* A disconnect that takes every socket of the user out of its rooms
DisconnectUser(c) ==
    /\ connState[c] = "active"
    /\ connState' = [connState EXCEPT ![c] = "terminated"]
    /\ rooms' = [d \in Conns |-> IF owner[d] = owner[c] THEN {} ELSE rooms[d]]
    /\ connectedUsers' = [connectedUsers EXCEPT ![owner[c]] = NoConn]
    /\ UNCHANGED <<handshake, owner, username, rejected, store, reqs, inbox>>

\* Transport close: socket.io takes the socket out of all its rooms and
\* fires 'disconnect' -> handleDisconnect(socket)
Disconnect(c) ==
    /\ connState[c] = "active"
    /\ connState' = [connState EXCEPT ![c] = "terminated"]
    /\ rooms' = [rooms EXCEPT ![c] = {}]
    /\ connectedUsers' = [connectedUsers EXCEPT ![owner[c]] = NoConn]
    /\ UNCHANGED <<handshake, owner, username, rejected, store, reqs, inbox>>

(* ---------------------------- send_message ---------------------------- *)

\* if (!to_user_id || !message || typeof message !== 'string')
InvalidSend(data) ==
    \/ ~TruthyId(data.to_user_id)
    \/ ~Truthy(data.message)
    \/ data.message.kind # "string"

\* handleSendMessage up to its first await
SendMessage(c, data) ==
    /\ connState[c] = "active"
    /\ Len(reqs) < MaxReqs
    /\ LET h == Len(reqs) + 1 IN
       IF ~HasPayload(data)
       THEN \* destructuring undefined throws; the catch block reports it
            /\ reqs' = Append(reqs, Req("send", c, data, "done",
                                        ErrorEvent("Failed to send message")))
            /\ inbox' = SocketEmit(inbox, c, ErrorEvent("Failed to send message"))
       ELSE IF InvalidSend(data)
       THEN /\ reqs' = Append(reqs, Req("send", c, data, "done",
                                        ErrorEvent("Invalid message data")))
            /\ inbox' = SocketEmit(inbox, c, ErrorEvent("Invalid message data"))
       ELSE /\ reqs' = Append(reqs, Req("send", c, data, "findById", NoEvent))
            /\ UNCHANGED inbox
    /\ UNCHANGED <<connState, handshake, owner, username, rejected, rooms, connectedUsers, store>>

\* await this.userModel.findById(to_user_id) resolves; on a recipient the
\* handler goes on to call messageModel.create
SendFindByIdReturn(h) ==
    /\ reqs[h].kind = "send" /\ reqs[h].pc = "findById"
    /\ LET recipient == findById(reqs[h].data.to_user_id) IN
       IF ~Found(recipient)
       THEN Finish(h, ErrorEvent("Recipient not found"), TRUE)
       ELSE /\ reqs' = [reqs EXCEPT ![h].pc = "create", ![h].recipient = recipient]
            /\ UNCHANGED inbox
    /\ UNCHANGED <<connState, handshake, owner, username, rejected, rooms, connectedUsers, store>>

\* A rejected create whose INSERT had written its row before the failure
\* was reported
SendStoreFailAfterWrite(h) ==
    /\ reqs[h].kind = "send" /\ reqs[h].pc \in {"findById", "create"}
    /\ Finish(h, ErrorEvent("Failed to send message"), FALSE)
    /\ store' = IF reqs[h].pc = "create"
                THEN InsertRow(store, owner[reqs[h].conn], reqs[h].data.to_user_id,
                               Trim(reqs[h].data.message.chars), LastTimestamp(store))
                ELSE store
    /\ UNCHANGED <<connState, handshake, owner, username, rejected, rooms, connectedUsers>>

\* The store rejects a query of the send handler (findById or create):
\* the await throws and the catch block reports it.
SendStoreFail(h) ==
    /\ reqs[h].kind = "send" /\ reqs[h].pc \in {"findById", "create"}
    /\ Finish(h, ErrorEvent("Failed to send message"), FALSE)
    /\ UNCHANGED <<connState, handshake, owner, username, rejected, rooms, connectedUsers, store>>

\* StoreInsert that writes over the last row while the handler that
\* inserted it has not resumed yet
StoreInsertOverwrites(h) ==
    /\ reqs[h].kind = "send" /\ reqs[h].pc = "create"
    /\ \E ts \in {LastTimestamp(store), LastTimestamp(store) + 1} :
         LET c == reqs[h].conn
             racing == \E g \in 1..Len(reqs) : g # h /\ reqs[g].pc = "inserted"
             base == IF racing THEN SubSeq(store, 1, Len(store) - 1) ELSE store
             st == InsertRow(base, owner[c], reqs[h].data.to_user_id,
                             Trim(reqs[h].data.message.chars), ts)
         IN  /\ store' = st
             /\ reqs' = [reqs EXCEPT ![h].pc = "inserted", ![h].saved = st[Len(st)]]
    /\ UNCHANGED <<connState, handshake, owner, username, rejected, rooms, connectedUsers, inbox>>

\* StoreInsert with the row handed back but never written to the table
StoreInsertUnsaved(h) ==
    /\ reqs[h].kind = "send" /\ reqs[h].pc = "create"
    /\ \E ts \in {LastTimestamp(store), LastTimestamp(store) + 1} :
         LET c == reqs[h].conn
             st == InsertRow(store, owner[c], reqs[h].data.to_user_id,
                             Trim(reqs[h].data.message.chars), ts)
         IN  reqs' = [reqs EXCEPT ![h].pc = "inserted", ![h].saved = st[Len(st)]]
    /\ UNCHANGED <<connState, handshake, owner, username, rejected, rooms, connectedUsers, store, inbox>>

\* An INSERT that is dropped when the sender's socket has closed
StoreInsertIfConnected(h) ==
    /\ reqs[h].kind = "send" /\ reqs[h].pc = "create"
    /\ connState[reqs[h].conn] = "active"
    /\ \E ts \in {LastTimestamp(store), LastTimestamp(store) + 1} :
         LET c == reqs[h].conn
             st == InsertRow(store, owner[c], reqs[h].data.to_user_id,
                             Trim(reqs[h].data.message.chars), ts)
         IN  /\ store' = st
             /\ reqs' = [reqs EXCEPT ![h].pc = "inserted", ![h].saved = st[Len(st)]]
    /\ UNCHANGED <<connState, handshake, owner, username, rejected, rooms, connectedUsers, inbox>>

\* The store executes the INSERT issued by Message.create
StoreInsert(h) ==
    /\ reqs[h].kind = "send" /\ reqs[h].pc = "create"
    /\ \E ts \in {LastTimestamp(store), LastTimestamp(store) + 1} :
         LET c == reqs[h].conn
             st == InsertRow(store, owner[c], reqs[h].data.to_user_id,
                             Trim(reqs[h].data.message.chars), ts)
         IN  /\ store' = st
             /\ reqs' = [reqs EXCEPT ![h].pc = "inserted", ![h].saved = st[Len(st)]]
    /\ UNCHANGED <<connState, handshake, owner, username, rejected, rooms, connectedUsers, inbox>>

\* A handler that acknowledges only a message that reached a socket of the
\* recipient
SendCreateReturnIfReached(h) ==
    /\ reqs[h].kind = "send" /\ reqs[h].pc = "inserted"
    /\ LET c == reqs[h].conn
           data == reqs[h].data
           recipientRoom == getUserRoom(data.to_user_id)
           received == MessageEvent("receive_message", c, data, reqs[h].recipient, reqs[h].saved)
           sent == MessageEvent("message_sent", c, data, reqs[h].recipient, reqs[h].saved)
           reached == RoomMembers(recipientRoom) # {}
       IN  /\ inbox' = IF reached
                       THEN SocketEmit(RoomEmit(inbox, recipientRoom, received), c, sent)
                       ELSE inbox
           /\ reqs' = [reqs EXCEPT ![h].pc = "done",
                                   ![h].reply = IF reached THEN sent ELSE NoEvent,
                                   ![h].delivered = RoomMembers(recipientRoom),
                                   ![h].replied = (reached /\ connState[c] = "active"),
                                   ![h].stage = "inserted"]
    /\ UNCHANGED <<connState, handshake, owner, username, rejected, rooms, connectedUsers, store>>

\* await this.messageModel.create(...) resolves: build messageObject,
\* io.to(recipientRoom).emit('receive_message'), socket.emit('message_sent')
SendCreateReturn(h) ==
    /\ reqs[h].kind = "send" /\ reqs[h].pc = "inserted"
    /\ LET c == reqs[h].conn
           data == reqs[h].data
           recipientRoom == getUserRoom(data.to_user_id)
           received == MessageEvent("receive_message", c, data, reqs[h].recipient, reqs[h].saved)
           sent == MessageEvent("message_sent", c, data, reqs[h].recipient, reqs[h].saved)
       IN  /\ inbox' = SocketEmit(RoomEmit(inbox, recipientRoom, received), c, sent)
           /\ reqs' = [reqs EXCEPT ![h].pc = "done", ![h].reply = sent,
                                   ![h].delivered = RoomMembers(recipientRoom),
                                   ![h].replied = (connState[c] = "active"),
                                   ![h].stage = "inserted"]
    /\ UNCHANGED <<connState, handshake, owner, username, rejected, rooms, connectedUsers, store>>

\* The text CURRENT_TIMESTAMP stores for instant t ('YYYY-MM-DD HH:MM:SS')
\* and the text new Date().toISOString() gives for instant t
\* ('YYYY-MM-DDTHH:MM:SS.sssZ'), as numbers: different for every pair of
\* instants, and ordered as the instants are.
SqlDatetime(t) == t + t
ToISOString(t) == t + t + 1
InstantOf(text) == text \div 2

\* Message.create of the sqlite build: db.run executes the INSERT (the
\* timestamp column takes CURRENT_TIMESTAMP) and the callback resolves with
\* this.lastID, the arguments, and new Date().toISOString() read in the
\* callback.
StoreInsertSqlite(h) ==
    /\ reqs[h].kind = "send" /\ reqs[h].pc = "create"
    /\ \E t \in {InstantOf(LastTimestamp(store)), InstantOf(LastTimestamp(store)) + 1} :
       \E now \in {t, t + 1} :
         LET c == reqs[h].conn
             st == InsertRow(store, owner[c], reqs[h].data.to_user_id,
                             Trim(reqs[h].data.message.chars), SqlDatetime(t))
         IN  /\ store' = st
             /\ reqs' = [reqs EXCEPT ![h].pc = "inserted",
                                     ![h].saved = [st[Len(st)] EXCEPT
                                                     !.timestamp = ToISOString(now)]]
    /\ UNCHANGED <<connState, handshake, owner, username, rejected, rooms, connectedUsers, inbox>>

(* ------------------------------ join_chat ----------------------------- *)

\* handleJoinChat up to its first await
JoinChat(c, data) ==
    /\ connState[c] = "active"
    /\ Len(reqs) < MaxReqs
    /\ IF ~HasPayload(data)
       THEN /\ reqs' = Append(reqs, Req("join", c, data, "done",
                                        ErrorEvent("Failed to join chat")))
            /\ inbox' = SocketEmit(inbox, c, ErrorEvent("Failed to join chat"))
       ELSE IF ~TruthyId(data.other_user_id)
       THEN /\ reqs' = Append(reqs, Req("join", c, data, "done",
                                        ErrorEvent("Invalid chat data")))
            /\ inbox' = SocketEmit(inbox, c, ErrorEvent("Invalid chat data"))
       ELSE /\ reqs' = Append(reqs, Req("join", c, data, "findById", NoEvent))
            /\ UNCHANGED inbox
    /\ UNCHANGED <<connState, handshake, owner, username, rejected, rooms, connectedUsers, store>>

\* chat_joined payload
JoinedEvent(chatRoom, otherUser) ==
    [type |-> "chat_joined", chat_room |-> chatRoom,
     other_user |-> [id |-> otherUser.id, username |-> otherUser.username]]

\* A join handler that joins the chat room before it looks at the result
\* of findById
JoinFindByIdReturnJoinFirst(h) ==
    /\ reqs[h].kind = "join" /\ reqs[h].pc = "findById"
    /\ LET c == reqs[h].conn
           otherUser == findById(reqs[h].data.other_user_id)
           chatRoom == getChatRoom(owner[c], reqs[h].data.other_user_id)
       IN  /\ rooms' = [rooms EXCEPT ![c] = @ \cup {chatRoom}]
           /\ IF ~Found(otherUser)
              THEN Finish(h, ErrorEvent("User not found"), TRUE)
              ELSE Finish(h, JoinedEvent(chatRoom, otherUser), TRUE)
    /\ UNCHANGED <<connState, handshake, owner, username, rejected, connectedUsers, store>>

\* await this.userModel.findById(other_user_id) resolves; socket.join adds
\* the socket id to the adapter's room whether or not the socket is still
\* connected
JoinFindByIdReturn(h) ==
    /\ reqs[h].kind = "join" /\ reqs[h].pc = "findById"
    /\ LET c == reqs[h].conn
           otherUser == findById(reqs[h].data.other_user_id)
           chatRoom == getChatRoom(owner[c], reqs[h].data.other_user_id)
       IN  IF ~Found(otherUser)
           THEN /\ Finish(h, ErrorEvent("User not found"), TRUE)
                /\ UNCHANGED rooms
           ELSE /\ rooms' = [rooms EXCEPT ![c] = @ \cup {chatRoom}]
                /\ Finish(h, JoinedEvent(chatRoom, otherUser), TRUE)
    /\ UNCHANGED <<connState, handshake, owner, username, rejected, connectedUsers, store>>

\* The store rejects the findById query of the join handler
JoinStoreFail(h) ==
    /\ reqs[h].kind = "join" /\ reqs[h].pc = "findById"
    /\ Finish(h, ErrorEvent("Failed to join chat"), FALSE)
    /\ UNCHANGED <<connState, handshake, owner, username, rejected, rooms, connectedUsers, store>>

(* --------------------------- get_chat_history ------------------------- *)

\* const { other_user_id, limit = 50 } = data
LimitOf(data) == IF "limit" \in DOMAIN data THEN data.limit ELSE DefaultLimit

\* handleGetChatHistory up to its await
GetChatHistory(c, data) ==
    /\ connState[c] = "active"
    /\ Len(reqs) < MaxReqs
    /\ IF ~HasPayload(data)
       THEN /\ reqs' = Append(reqs, Req("history", c, data, "done",
                                        ErrorEvent("Failed to get chat history")))
            /\ inbox' = SocketEmit(inbox, c, ErrorEvent("Failed to get chat history"))
       ELSE IF ~TruthyId(data.other_user_id)
       THEN /\ reqs' = Append(reqs, Req("history", c, data, "done",
                                        ErrorEvent("Invalid request data")))
            /\ inbox' = SocketEmit(inbox, c, ErrorEvent("Invalid request data"))
       ELSE /\ reqs' = Append(reqs, Req("history", c, data, "query", NoEvent))
            /\ UNCHANGED inbox
    /\ UNCHANGED <<connState, handshake, owner, username, rejected, rooms, connectedUsers, store>>

\* chat_history payload
HistoryEvent(otherUserId, messages) ==
    [type |-> "chat_history", other_user_id |-> otherUserId, messages |-> messages]

\* The store runs the SELECT of Message.getChatHistory and the await
\* resolves with its rows
HistoryReturn(h) ==
    /\ reqs[h].kind = "history" /\ reqs[h].pc = "query"
    /\ LET c == reqs[h].conn
           data == reqs[h].data
           messages == getChatHistory(store, owner[c], data.other_user_id, LimitOf(data))
       IN  Finish(h, HistoryEvent(data.other_user_id, messages), TRUE)
    /\ UNCHANGED <<connState, handshake, owner, username, rejected, rooms, connectedUsers, store>>

\* A rejected SELECT that the handler swallows: it ends waiting, without
\* emitting anything
HistoryStoreFailSilent(h) ==
    /\ reqs[h].kind = "history" /\ reqs[h].pc = "query"
    /\ reqs' = [reqs EXCEPT ![h].pc = "hung", ![h].storeOk = FALSE]
    /\ UNCHANGED <<connState, handshake, owner, username, rejected, rooms, connectedUsers, store, inbox>>

\* The store rejects the SELECT
HistoryStoreFail(h) ==
    /\ reqs[h].kind = "history" /\ reqs[h].pc = "query"
    /\ Finish(h, ErrorEvent("Failed to get chat history"), FALSE)
    /\ UNCHANGED <<connState, handshake, owner, username, rejected, rooms, connectedUsers, store>>

(* --------------------------- specification ---------------------------- *)

Handlers == 1..Len(reqs)

Next ==
    \/ \E c \in Conns : \E token \in Credentials(c) : Connect(c, token)
    \/ \E c \in Conns : Disconnect(c)
    \/ \E c \in Clients : \E data \in SendPayloads(c) : SendMessage(c, data)
    \/ \E h \in Handlers : SendFindByIdReturn(h)
    \/ \E h \in Handlers : SendStoreFail(h)
    \/ \E h \in Handlers : StoreInsert(h)
    \/ \E h \in Handlers : SendCreateReturn(h)
    \/ \E c \in Clients : \E data \in JoinPayloads(c) : JoinChat(c, data)
    \/ \E h \in Handlers : JoinFindByIdReturn(h)
    \/ \E h \in Handlers : JoinStoreFail(h)
    \/ \E c \in Clients : \E data \in HistPayloads(c) : GetChatHistory(c, data)
    \/ \E h \in Handlers : HistoryReturn(h)
    \/ \E h \in Handlers : HistoryStoreFail(h)

Spec == Init /\ [][Next]_vars

\* The same server started on a messages table that already holds
\* DefaultLimit rows of the conversation of users 1 and 2.
InitBacklog ==
    /\ connState = [c \in Conns |-> "connecting"]
    /\ handshake = [c \in Conns |-> NoHandshake]
    /\ owner = [c \in Conns |-> NoId]
    /\ username = [c \in Conns |-> NoName]
    /\ rejected = [c \in Conns |-> ""]
    /\ rooms = [c \in Conns |-> {}]
    /\ connectedUsers = [u \in Users |-> NoConn]
    /\ store = Backlog(DefaultLimit)
    /\ reqs = <<>>
    /\ inbox = [c \in Conns |-> <<>>]

SpecBacklog == InitBacklog /\ [][Next]_vars

\* The server built on the sqlite database and models
NextSqlite ==
    \/ \E c \in Conns : \E token \in Credentials(c) : Connect(c, token)
    \/ \E c \in Conns : Disconnect(c)
    \/ \E c \in Clients : \E data \in SendPayloads(c) : SendMessage(c, data)
    \/ \E h \in Handlers : SendFindByIdReturn(h)
    \/ \E h \in Handlers : SendStoreFail(h)
    \/ \E h \in Handlers : StoreInsertSqlite(h)
    \/ \E h \in Handlers : SendCreateReturn(h)
    \/ \E c \in Clients : \E data \in JoinPayloads(c) : JoinChat(c, data)
    \/ \E h \in Handlers : JoinFindByIdReturn(h)
    \/ \E h \in Handlers : JoinStoreFail(h)
    \/ \E c \in Clients : \E data \in HistPayloads(c) : GetChatHistory(c, data)
    \/ \E h \in Handlers : HistoryReturn(h)
    \/ \E h \in Handlers : HistoryStoreFail(h)

SpecSqlite == Init /\ [][NextSqlite]_vars

\* A pending step of handler h: the store answers the query the handler
\* awaits (with a result or with a rejection) and the handler runs on.
HandlerStep(h) ==
    /\ h \in Handlers
    /\ \/ SendFindByIdReturn(h) \/ SendStoreFail(h)
       \/ StoreInsert(h) \/ SendCreateReturn(h)
       \/ JoinFindByIdReturn(h) \/ JoinStoreFail(h)
       \/ HistoryReturn(h) \/ HistoryStoreFail(h)

\* The server with the sockets of the two clients that emit events
NextLive ==
    \/ \E c \in Clients : \E token \in Credentials(c) : Connect(c, token)
    \/ \E c \in Clients : Disconnect(c)
    \/ \E c \in Clients : \E data \in SendPayloads(c) : SendMessage(c, data)
    \/ \E h \in Handlers : SendFindByIdReturn(h)
    \/ \E h \in Handlers : SendStoreFail(h)
    \/ \E h \in Handlers : StoreInsert(h)
    \/ \E h \in Handlers : SendCreateReturn(h)
    \/ \E c \in Clients : \E data \in JoinPayloads(c) : JoinChat(c, data)
    \/ \E h \in Handlers : JoinFindByIdReturn(h)
    \/ \E h \in Handlers : JoinStoreFail(h)
    \/ \E c \in Clients : \E data \in HistPayloads(c) : GetChatHistory(c, data)
    \/ \E h \in Handlers : HistoryReturn(h)
    \/ \E h \in Handlers : HistoryStoreFail(h)

\* ... and a store that answers every query in the end
SpecLive ==
    /\ Init /\ [][NextLive]_vars
    /\ \A h \in 1..MaxReqs : WF_vars(HandlerStep(h))

(* ============================== claims ================================ *)

SendHandlers == {h \in Handlers : reqs[h].kind = "send"}
HistoryHandlers == {h \in Handlers : reqs[h].kind = "history"}

\* A send handler that ran to completion and acknowledged.
Succeeded(h) ==
    /\ reqs[h].kind = "send" /\ reqs[h].pc = "done"
    /\ reqs[h].reply.type = "message_sent"

IsMessageEvent(ev) == ev.type \in {"receive_message", "message_sent"}

\* Positions of inbox[c] that hold an event of the given type for message id
EventsFor(c, type, id) ==
    {i \in 1..Len(inbox[c]) : inbox[c][i].type = type /\ inbox[c][i].id = id}

\* The row of the table with the given id is there with these fields
Persisted(id, from, to, text) ==
    \E k \in 1..Len(store) :
        /\ store[k].id = id
        /\ store[k].from_user_id = from
        /\ store[k].to_user_id = to
        /\ store[k].message = text

(* ------------------------------- C1 ----------------------------------- *)

\* C1: no delivery before durability.  Every receive_message or
\* message_sent event a client holds is for a row that is in the messages
\* table (same id, sender, recipient and body) and comes from a send
\* handler that got its row back from Message.create; and a send handler
\* whose Message.create failed has emitted no receive_message and no
\* message_sent, has persisted nothing, and has emitted an error event on
\* its own socket, which the client holds if the socket was still connected.
C1_NoDeliveryBeforeDurability ==
    /\ \A c \in Conns : \A i \in 1..Len(inbox[c]) :
         LET ev == inbox[c][i] IN
         IsMessageEvent(ev) =>
            /\ Persisted(ev.id, ev.from_user_id, ev.to_user_id, ev.message)
            /\ \E h \in SendHandlers : Succeeded(h) /\ reqs[h].saved.id = ev.id
    /\ \A h \in SendHandlers :
         (reqs[h].pc = "done" /\ reqs[h].stage = "create") =>
            /\ ~reqs[h].storeOk
            /\ reqs[h].reply = ErrorEvent("Failed to send message")
            /\ reqs[h].delivered = {}
            /\ reqs[h].saved = NoRow
            /\ reqs[h].replied =>
                 \E i \in 1..Len(inbox[reqs[h].conn]) :
                    inbox[reqs[h].conn][i] = reqs[h].reply

\* C1 witness: one send has been delivered and acknowledged from the
\* table, and another send has failed in Message.create.
C1_Witness ==
    /\ \E c \in Conns : \E i \in 1..Len(inbox[c]) :
          inbox[c][i].type = "receive_message"
    /\ \E h \in SendHandlers :
          reqs[h].pc = "done" /\ reqs[h].stage = "create" /\ reqs[h].replied

(* ------------------------------- C2 ----------------------------------- *)

\* The receive_message events socket c holds for handler h's message
Received(c, h) == EventsFor(c, "receive_message", reqs[h].saved.id)
\* The message_sent events socket c holds for handler h's message
Acked(c, h) == EventsFor(c, "message_sent", reqs[h].saved.id)

\* Exactly-once delivery and acknowledgment of a send that succeeded, with
\* the delivered body required to be `body`.
ExactlyOnce(h, body) ==
    /\ \A c \in reqs[h].delivered :
          /\ Cardinality(Received(c, h)) = 1
          /\ \A i \in Received(c, h) :
                /\ inbox[c][i].message = body
                /\ inbox[c][i].from_user_id = owner[reqs[h].conn]
    /\ reqs[h].replied =>
          /\ Cardinality(Acked(reqs[h].conn, h)) = 1
          /\ \A i \in Acked(reqs[h].conn, h) :
                inbox[reqs[h].conn][i].id = reqs[h].saved.id
    /\ \A c \in Conns :
          /\ Cardinality(Received(c, h)) <= 1
          /\ Cardinality(Acked(c, h)) <= 1

\* C2 as stated: for every send (of a body that is not empty after
\* trimming) that succeeded, each socket of the recipient that was
\* connected at delivery holds exactly one receive_message for it whose
\* body equals the body the client sent and whose from_user_id is the
\* sender's id, and the sending socket (if still connected) holds exactly
\* one message_sent with the same id.
C2_ExactlyOnceSentBody ==
    \A h \in SendHandlers :
        (Succeeded(h) /\ Trim(reqs[h].data.message.chars) # <<>>) =>
            ExactlyOnce(h, reqs[h].data.message.chars)

\* C2 amended: the same, the body being the sent body with its leading and
\* trailing whitespace trimmed.
C2_ExactlyOnceTrimmedBody ==
    \A h \in SendHandlers :
        Succeeded(h) => ExactlyOnce(h, Trim(reqs[h].data.message.chars))

\* C2 witness: a send whose body changes under trim has succeeded, has
\* reached two connected sockets of the recipient and has been acknowledged
\* to a sender that is a different socket.
C2_Witness ==
    \E h \in SendHandlers :
        /\ Succeeded(h)
        /\ Trim(reqs[h].data.message.chars) # reqs[h].data.message.chars
        /\ Trim(reqs[h].data.message.chars) # <<>>
        /\ Cardinality(reqs[h].delivered) = 2
        /\ reqs[h].replied
        /\ reqs[h].conn \notin reqs[h].delivered

(* ------------------------------- C3 ----------------------------------- *)

\* A history handler that ran to completion and emitted chat_history.
Answered(g) ==
    /\ reqs[g].kind = "history" /\ reqs[g].pc = "done"
    /\ reqs[g].reply.type = "chat_history"

\* The rows of the conversation of a and b among the first n rows of the
\* table, oldest first (the table is in chronological order).
Conversation(a, b, n) ==
    LET Match(m) == InConversation(m, a, b)
    IN  SelectSeq(SubSeq(store, 1, n), Match)

Ascending(messages) ==
    \A i, j \in 1..Len(messages) :
        i < j => /\ messages[i].timestamp <= messages[j].timestamp
                 /\ messages[i].id < messages[j].id

\* C3: a chat_history answer holds at most `limit` messages; when the
\* conversation held more than `limit` rows as the query ran, the answer is
\* exactly the `limit` most recent of them; and it is in ascending
\* chronological order.
C3_HistoryMostRecent ==
    \A g \in HistoryHandlers :
        Answered(g) =>
            LET limit == LimitOf(reqs[g].data)
                messages == reqs[g].reply.messages
                all == Conversation(owner[reqs[g].conn],
                                    reqs[g].data.other_user_id,
                                    reqs[g].snapshot)
            IN  /\ Len(messages) <= limit
                /\ Ascending(messages)
                /\ Len(all) > limit =>
                     /\ Len(messages) = limit
                     /\ \A i \in 1..limit :
                           messages[i].id = all[Len(all) - limit + i].id

(* ------------------------------- C4 ----------------------------------- *)

\* C4: once a send to a recipient without a connected socket has
\* succeeded, no socket holds a receive_message for it, and every
\* chat_history answer to a get_chat_history of the sender for that
\* recipient with the default limit, dispatched after the send ended,
\* holds the message.
C4_OfflineSendInHistory ==
    \A h \in SendHandlers :
        (Succeeded(h) /\ reqs[h].delivered = {}) =>
            /\ \A c \in Conns : Received(c, h) = {}
            /\ \A g \in HistoryHandlers :
                 ( /\ Answered(g)
                   /\ h \in reqs[g].after
                   /\ owner[reqs[g].conn] = owner[reqs[h].conn]
                   /\ reqs[g].data.other_user_id = reqs[h].data.to_user_id
                   /\ "limit" \notin DOMAIN reqs[g].data )
                 => \E i \in 1..Len(reqs[g].reply.messages) :
                        reqs[g].reply.messages[i].id = reqs[h].saved.id

(* ------------------------------- C5 ----------------------------------- *)

\* connectionsFor(userId): the sockets the connectedUsers table reports
Registered(c) == owner[c] # NoId /\ connectedUsers[owner[c]] = c

\* C5: a socket is in the registry exactly when it has completed admission
\* and has not terminated.
C5_RegistryIffActive ==
    \A c \in Conns : Registered(c) <=> connState[c] = "active"

(* ------------------------------- C6 ----------------------------------- *)

\* C6: a send whose body is a string that is empty after trimming
\* persists no row and, unless the store rejected a query, ends with the
\* error 'Invalid message data'; and every row of the table has a
\* non-empty body.
C6_EmptyBodyRejected ==
    /\ \A h \in SendHandlers :
         ( /\ HasPayload(reqs[h].data)
           /\ reqs[h].data.message.kind = "string"
           /\ TruthyId(reqs[h].data.to_user_id)
           /\ Trim(reqs[h].data.message.chars) = <<>> )
         => /\ reqs[h].saved = NoRow
            /\ (reqs[h].pc = "done" /\ reqs[h].storeOk) =>
                  reqs[h].reply = ErrorEvent("Invalid message data")
    /\ \A k \in 1..Len(store) : store[k].message # <<>>

(* ------------------------------- C7 ----------------------------------- *)

\* A send handler whose payload passed validation and names no row of the
\* users table.
ToNobody(h) ==
    /\ reqs[h].kind = "send"
    /\ HasPayload(reqs[h].data)
    /\ ~InvalidSend(reqs[h].data)
    /\ reqs[h].data.to_user_id \notin Users

\* C7: a send to a to_user_id that names no user persists no row, delivers
\* nothing, is never acknowledged, and ends with the error 'Recipient not
\* found' (with 'Failed to send message' only when the store rejected the
\* lookup itself); and every row of the table has a to_user_id of an
\* existing user.
C7_RecipientNotFound ==
    /\ \A h \in SendHandlers :
         ToNobody(h) =>
            /\ reqs[h].saved = NoRow
            /\ reqs[h].delivered = {}
            /\ reqs[h].pc \in {"findById", "done"}
            /\ reqs[h].pc = "done" =>
                 /\ reqs[h].stage = "findById"
                 /\ reqs[h].reply =
                       IF reqs[h].storeOk
                       THEN ErrorEvent("Recipient not found")
                       ELSE ErrorEvent("Failed to send message")
                 /\ reqs[h].replied =>
                       \E i \in 1..Len(inbox[reqs[h].conn]) :
                           inbox[reqs[h].conn][i] = reqs[h].reply
    /\ \A k \in 1..Len(store) : store[k].to_user_id \in Users
    /\ \A c \in Conns : \A i \in 1..Len(inbox[c]) :
         IsMessageEvent(inbox[c][i]) => inbox[c][i].to_user_id \in Users

\* C7 witness: a send to a nonexistent user has ended with 'Recipient not
\* found' on a connected socket while another send has persisted a row.
C7_Witness ==
    /\ \E h \in SendHandlers :
          /\ ToNobody(h) /\ reqs[h].pc = "done" /\ reqs[h].storeOk
          /\ reqs[h].replied
    /\ store # <<>>

(* ------------------------------- C8 ----------------------------------- *)

\* Whether handler h can no longer persist a row
NeverPersists(h) == reqs[h].pc = "done" /\ reqs[h].saved = NoRow

\* Position of the message_sent of handler h in its socket's inbox (0: none)
AckPosition(h) ==
    IF Acked(reqs[h].conn, h) = {} THEN 0
    ELSE CHOOSE i \in Acked(reqs[h].conn, h) : TRUE

\* A send handler whose payload is valid: an id and a string body that is
\* not empty after trimming.
ValidPayload(h) ==
    /\ HasPayload(reqs[h].data)
    /\ ~InvalidSend(reqs[h].data)
    /\ Trim(reqs[h].data.message.chars) # <<>>

\* C8: of two valid send events dispatched on the same socket, the later
\* one's row is never persisted ahead of the earlier one's, and the later
\* one's message_sent never precedes the earlier one's.
C8_SenderStreamOrder ==
    \A h1, h2 \in SendHandlers :
        ( /\ h1 < h2 /\ reqs[h1].conn = reqs[h2].conn
          /\ ValidPayload(h1) /\ ValidPayload(h2) ) =>
            /\ reqs[h2].saved # NoRow =>
                 \/ NeverPersists(h1)
                 \/ reqs[h1].saved # NoRow /\ reqs[h1].saved.id < reqs[h2].saved.id
            /\ (Succeeded(h2) /\ reqs[h2].replied) =>
                 \/ NeverPersists(h1)
                 \/ Succeeded(h1) /\ (reqs[h1].replied => AckPosition(h1) < AckPosition(h2))

(* ------------------------------- C9 ----------------------------------- *)

\* Two send handlers of different senders to the same recipient that were
\* in flight together.
Concurrent(h1, h2) ==
    /\ h1 < h2
    /\ owner[reqs[h1].conn] # owner[reqs[h2].conn]
    /\ HasPayload(reqs[h1].data) /\ HasPayload(reqs[h2].data)
    /\ ~InvalidSend(reqs[h1].data) /\ ~InvalidSend(reqs[h2].data)
    /\ reqs[h1].data.to_user_id = reqs[h2].data.to_user_id
    /\ reqs[h1].data.to_user_id \in Users
    /\ h1 \notin reqs[h2].after

\* The row handler h was handed back is in the table
RowPersisted(h) ==
    /\ reqs[h].saved # NoRow
    /\ Persisted(reqs[h].saved.id, owner[reqs[h].conn],
                 reqs[h].data.to_user_id, Trim(reqs[h].data.message.chars))

\* C9: of two concurrent sends of different senders to the same recipient,
\* each one that has ended without a store rejection has succeeded; once
\* both have, both rows are in the table under different ids and every
\* socket of the recipient that was connected at both deliveries holds
\* exactly one receive_message for each.
C9_ConcurrentSendersBothDelivered ==
    \A h1, h2 \in SendHandlers :
        Concurrent(h1, h2) =>
            /\ \A h \in {h1, h2} :
                 (reqs[h].pc = "done" /\ reqs[h].storeOk) => Succeeded(h)
            /\ (Succeeded(h1) /\ Succeeded(h2)) =>
                 /\ RowPersisted(h1) /\ RowPersisted(h2)
                 /\ reqs[h1].saved.id # reqs[h2].saved.id
                 /\ \A c \in reqs[h1].delivered \cap reqs[h2].delivered :
                      /\ Cardinality(Received(c, h1)) = 1
                      /\ Cardinality(Received(c, h2)) = 1
                 /\ \A c \in Conns :
                      /\ Cardinality(Received(c, h1)) =
                           IF c \in reqs[h1].delivered THEN 1 ELSE 0
                      /\ Cardinality(Received(c, h2)) =
                           IF c \in reqs[h2].delivered THEN 1 ELSE 0

\* C9 witness: two concurrent sends of different senders have both
\* succeeded, the later-dispatched one persisted first, and a socket of
\* the recipient other than the senders' holds both messages.
C9_Witness ==
    \E h1, h2 \in SendHandlers :
        /\ Concurrent(h1, h2)
        /\ Succeeded(h1) /\ Succeeded(h2)
        /\ reqs[h2].saved.id < reqs[h1].saved.id
        /\ \E c \in (reqs[h1].delivered \cap reqs[h2].delivered)
                        \ {reqs[h1].conn, reqs[h2].conn} :
              /\ Received(c, h1) # {}
              /\ Received(c, h2) # {}

(* ------------------------------- C10 ---------------------------------- *)

\* Limits the symmetry is checked for
SymmetryLimits == {1, DefaultLimit}

\* C10: on every table the server reaches, and for every limit, the
\* history of (a, b) and the history of (b, a) are the same sequence.
C10_HistorySymmetric ==
    \A a, b \in Users \cup {GhostId} : \A limit \in SymmetryLimits :
        a < b =>
            getChatHistory(store, a, b, limit) = getChatHistory(store, b, a, limit)

\* C10 witness: the table holds a row from user 1 to user 2 and a row
\* from user 2 to user 1, and the history of that conversation holds both.
C10_Witness ==
    /\ \E k \in 1..Len(store) :
          store[k].from_user_id = 1 /\ store[k].to_user_id = 2
    /\ \E k \in 1..Len(store) :
          store[k].from_user_id = 2 /\ store[k].to_user_id = 1
    /\ Len(getChatHistory(store, 1, 2, DefaultLimit)) = 2

(* ------------------------------- C11 ---------------------------------- *)

\* Every message of the sequence is between a and b, one way or the other.
OnlyOfPair(messages, a, b) ==
    \A i \in 1..Len(messages) :
        {messages[i].from_user_id, messages[i].to_user_id} = {a, b}

AscendingByCreatedAt(messages) ==
    \A i, j \in 1..Len(messages) :
        i < j => messages[i].timestamp <= messages[j].timestamp

\* C11: every message of a chat_history answer is between the requesting
\* user and the other user of the request, in one direction or the other,
\* and the answer is ordered by timestamp ascending; the same holds of the
\* history of every pair of users on every table the server reaches.
C11_HistoryOnlyOfPair ==
    /\ \A g \in HistoryHandlers :
         Answered(g) =>
            /\ OnlyOfPair(reqs[g].reply.messages, owner[reqs[g].conn],
                          reqs[g].data.other_user_id)
            /\ AscendingByCreatedAt(reqs[g].reply.messages)
    /\ \A a, b \in Users :
         a < b =>
            LET messages == getChatHistory(store, a, b, DefaultLimit)
            IN  OnlyOfPair(messages, a, b) /\ AscendingByCreatedAt(messages)

\* C11 witness: the table holds a row of the conversation of users 1 and 2
\* and a row of another pair, and the history of users 1 and 2 is the one
\* row of their conversation.
C11_Witness ==
    /\ Len(store) = 2
    /\ \E k \in 1..Len(store) : {store[k].from_user_id, store[k].to_user_id} = {1, 2}
    /\ \E k \in 1..Len(store) : {store[k].from_user_id, store[k].to_user_id} # {1, 2}
    /\ Len(getChatHistory(store, 1, 2, DefaultLimit)) = 1

(* ------------------------------- C12 ---------------------------------- *)

\* The step in which send handler h emits receive_message and message_sent
Delivering(h) ==
    reqs[h].kind = "send" /\ reqs[h].pc = "inserted" /\ reqs'[h].pc = "done"

\* In this step socket c's client gets a receive_message for h's message
Gained(c, h) ==
    \E i \in (Len(inbox[c]) + 1)..Len(inbox'[c]) :
        /\ inbox'[c][i].type = "receive_message"
        /\ inbox'[c][i].id = reqs[h].saved.id

\* C12: when a send handler delivers, the sockets that get the
\* receive_message are exactly the connected sockets of the user the
\* message is addressed to, whatever chat rooms any socket has joined.
C12_DeliveryToPersonalRoom ==
    [][ \A h \in Handlers :
          Delivering(h) =>
             \A c \in Conns :
                Gained(c, h) <=> /\ connState[c] = "active"
                                 /\ owner[c] = reqs[h].data.to_user_id ]_vars

\* C12 witness: a message was delivered to two sockets of its recipient,
\* one that had joined the chat room of sender and recipient before the
\* send was dispatched and one that is in no chat room.
C12_Witness ==
    \E h \in SendHandlers : \E j \in Handlers : \E c, d \in Conns :
        LET chatRoom == getChatRoom(owner[reqs[h].conn], reqs[h].data.to_user_id)
        IN  /\ Succeeded(h)
            /\ {c, d} \subseteq reqs[h].delivered
            /\ Received(c, h) # {} /\ Received(d, h) # {}
            /\ reqs[j].kind = "join" /\ reqs[j].conn = c /\ j \in reqs[h].after
            /\ reqs[j].reply.type = "chat_joined"
            /\ reqs[j].reply.chat_room = chatRoom
            /\ chatRoom \in rooms[c]
            /\ rooms[d] = {getUserRoom(owner[d])}

(* ------------------------------- C13 ---------------------------------- *)

\* The connected sockets of user u
LiveSocketsOf(u) == {c \in Conns : connState[c] = "active" /\ owner[c] = u}

\* The positions socket c's inbox gains in this step that hold event ev
GainedCopies(c, ev) ==
    {i \in (Len(inbox[c]) + 1)..Len(inbox'[c]) : inbox'[c][i] = ev}

\* C13: when a send handler delivers, every connected socket of the
\* recipient (none, one or several) gets exactly one receive_message
\* carrying the message view of the saved row, and the handler's emit
\* reached exactly these sockets.
C13_EveryLiveRecipientSocket ==
    [][ \A h \in Handlers :
          Delivering(h) =>
             LET view == MessageEvent("receive_message", reqs[h].conn, reqs[h].data,
                                      reqs[h].recipient, reqs[h].saved)
                 live == LiveSocketsOf(reqs[h].data.to_user_id)
             IN  /\ reqs'[h].delivered = live
                 /\ \A c \in live : Cardinality(GainedCopies(c, view)) = 1 ]_vars

\* C13 witness: a first message reached two sockets of its recipient; one
\* of them then disconnected, and a second message to the same user,
\* dispatched after the first had ended, reached the remaining socket.
C13_Witness ==
    \E h1, h2 \in SendHandlers : \E c, d \in Conns :
        /\ Succeeded(h1) /\ Succeeded(h2)
        /\ h1 \in reqs[h2].after
        /\ reqs[h1].data.to_user_id = reqs[h2].data.to_user_id
        /\ reqs[h1].delivered = {c, d} /\ c # d
        /\ reqs[h2].delivered = {d}
        /\ connState[c] = "terminated"
        /\ Received(c, h1) # {} /\ Received(c, h2) = {}
        /\ Received(d, h1) # {} /\ Received(d, h2) # {}

(* ------------------------------- C14 ---------------------------------- *)

\* authenticateSocket called next() without an error for socket c
Admitted(c) ==
    /\ TokenValid(handshake[c])
    /\ rejected[c] = ""
    /\ owner[c] \in Users

\* Socket c has no trace in the server: it is not in the connectedUsers
\* table, is in no room, no handler ran for an event of it, and nothing
\* was emitted to it.
Untouched(c) ==
    /\ \A u \in Users : connectedUsers[u] # c
    /\ rooms[c] = {}
    /\ \A h \in Handlers : reqs[h].conn # c
    /\ inbox[c] = <<>>

\* C14: a socket is active, in the connectedUsers table, in a room, or has
\* had an event handled only if its admission succeeded, and an active
\* socket is in the room of its user; a socket whose admission failed is
\* terminated, was never bound to a user, and has no trace in the server,
\* as has a socket whose handshake has not arrived.
C14_ActiveOnlyAfterAdmission ==
    \A c \in Conns :
        /\ connState[c] = "active" =>
              Admitted(c) /\ getUserRoom(owner[c]) \in rooms[c]
        /\ ~Untouched(c) => Admitted(c)
        /\ rejected[c] # "" =>
              /\ connState[c] = "terminated"
              /\ owner[c] = NoId /\ username[c] = NoName
              /\ Untouched(c)
        /\ connState[c] = "connecting" => owner[c] = NoId /\ Untouched(c)

\* C14 witness: one socket was rejected at admission and is terminated,
\* while an admitted socket is active, registered, in its user's room and
\* has had a request handled to its end.
C14_Witness ==
    \E c, d \in Conns :
        /\ rejected[c] # "" /\ connState[c] = "terminated"
        /\ connState[d] = "active" /\ Registered(d)
        /\ getUserRoom(owner[d]) \in rooms[d]
        /\ \E h \in Handlers : reqs[h].conn = d /\ reqs[h].pc = "done"

(* ------------------------------- C15 ---------------------------------- *)

\* The tokens AuthService signed: those its verification accepts
SignedTokens == {TokenFor(u) : u \in Users}

\* C15: once a socket's handshake has been processed, a handshake without
\* a token was rejected with 'Authentication error: No token provided', a
\* handshake with a token that is not a signed one was rejected with
\* 'Authentication error: Invalid token', and in both cases the socket was
\* bound to no user; a signed token was not rejected and the socket
\* carries the id and the username of the token; the reasons of the two
\* rejections differ.
C15_AdmissionOutcome ==
    /\ \A c \in Conns :
         connState[c] # "connecting" =>
            /\ handshake[c] = NoToken =>
                  /\ rejected[c] = "Authentication error: No token provided"
                  /\ owner[c] = NoId /\ username[c] = NoName
            /\ (handshake[c] # NoToken /\ handshake[c] \notin SignedTokens) =>
                  /\ rejected[c] = "Authentication error: Invalid token"
                  /\ owner[c] = NoId /\ username[c] = NoName
            /\ handshake[c] \in SignedTokens =>
                  /\ rejected[c] = ""
                  /\ owner[c] = handshake[c].id
                  /\ username[c] = handshake[c].username
    /\ \A c, d \in Conns :
         ( /\ connState[c] # "connecting" /\ connState[d] # "connecting"
           /\ handshake[c] = NoToken
           /\ handshake[d] # NoToken /\ handshake[d] \notin SignedTokens )
         => rejected[c] # rejected[d]

\* C15 witness: one socket presented no token, one an invalid token and one
\* a signed token, and the last is bound to a user id and a username.
C15_Witness ==
    \E c, d, a \in Conns :
        /\ handshake[c] = NoToken /\ rejected[c] # ""
        /\ handshake[d] = BadToken /\ rejected[d] # ""
        /\ handshake[a] \in SignedTokens
        /\ owner[a] \in Users /\ username[a] = Username(owner[a])

(* ------------------------------- C16 ---------------------------------- *)

\* The step in which socket c's disconnect is handled
Disconnecting(c) == connState[c] = "active" /\ connState'[c] = "terminated"

\* C16: handling the disconnect of a socket the connectedUsers table names
\* leaves its user without an entry and changes no other entry; handling
\* the disconnect of a socket the table does not name changes no entry.
C16_UnregisterOnlyOwnEntry ==
    [][ \A c \in Conns :
          Disconnecting(c) =>
             IF Registered(c)
             THEN connectedUsers' = [connectedUsers EXCEPT ![owner[c]] = NoConn]
             ELSE connectedUsers' = connectedUsers ]_vars

(* ------------------------------- C17 ---------------------------------- *)

\* A join handler that ran to its end and emitted chat_joined.
Joined(j) ==
    /\ reqs[j].kind = "join" /\ reqs[j].pc = "done"
    /\ reqs[j].reply.type = "chat_joined"

\* C17: the chat room of two different user ids does not depend on the
\* order the ids are given in, and two sockets that join the chat of the
\* same two users, one from each side, are told and put in the same room.
C17_ChatRoomOrderIndependent ==
    /\ \A x, y \in Users \cup {GhostId} :
          x # y => getChatRoom(x, y) = getChatRoom(y, x)
    /\ \A j1, j2 \in Handlers :
          ( /\ Joined(j1) /\ Joined(j2)
            /\ owner[reqs[j1].conn] = reqs[j2].data.other_user_id
            /\ owner[reqs[j2].conn] = reqs[j1].data.other_user_id )
          => /\ reqs[j1].reply.chat_room = reqs[j2].reply.chat_room
             /\ \A c \in {reqs[j1].conn, reqs[j2].conn} :
                   connState[c] = "active" =>
                      {reqs[j1].reply.chat_room, reqs[j2].reply.chat_room}
                          \subseteq rooms[c]

\* C17 witness: user 1 has joined the chat with user 2 and user 2 the chat
\* with user 1, and their two sockets are in one chat room.
C17_Witness ==
    \E j1, j2 \in Handlers :
        /\ Joined(j1) /\ Joined(j2)
        /\ owner[reqs[j1].conn] = 1 /\ reqs[j1].data.other_user_id = 2
        /\ owner[reqs[j2].conn] = 2 /\ reqs[j2].data.other_user_id = 1
        /\ getChatRoom(1, 2) \in rooms[reqs[j1].conn] \cap rooms[reqs[j2].conn]

(* ------------------------------- C18 ---------------------------------- *)

\* C18: a join_chat whose other_user_id is the id of the socket's own
\* user ends with an error event, and the socket is never in the chat room
\* of that user with itself.
C18_SelfJoinRejected ==
    \A j \in Handlers :
        ( /\ reqs[j].kind = "join"
          /\ HasPayload(reqs[j].data)
          /\ reqs[j].data.other_user_id = owner[reqs[j].conn] )
        => /\ reqs[j].pc = "done" => reqs[j].reply.type = "error"
           /\ getChatRoom(owner[reqs[j].conn], owner[reqs[j].conn])
                 \notin rooms[reqs[j].conn]

(* ------------------------------- C19 ---------------------------------- *)

\* The step in which handler h ends by emitting an error event
EndsInError(h) ==
    /\ h \in 1..Len(reqs')
    /\ reqs'[h].pc = "done" /\ reqs'[h].reply.type = "error"
    /\ h <= Len(reqs) => reqs[h].pc # "done"

\* C19: in the step in which a send, join or history handler ends with an
\* error, the error event goes to the client of the handler's own socket
\* (if it is still connected) and no other client gets any event; no
\* socket changes state, room or user, the connectedUsers table and the
\* messages table are unchanged, and the handler's socket, if connected,
\* is still in its user's room.
C19_ErrorOnlyToRequester ==
    [][ \A h \in 1..MaxReqs :
          EndsInError(h) =>
             LET c == reqs'[h].conn IN
             /\ \A d \in Conns \ {c} : inbox'[d] = inbox[d]
             /\ inbox'[c] = IF connState[c] = "active"
                            THEN Append(inbox[c], reqs'[h].reply)
                            ELSE inbox[c]
             /\ connState' = connState /\ owner' = owner
             /\ rooms' = rooms /\ connectedUsers' = connectedUsers
             /\ store' = store
             /\ connState'[c] = "active" => getUserRoom(owner'[c]) \in rooms'[c]
      ]_vars

\* C19 witness: a request of a socket ended with an error its client got,
\* no other client holds an error event, and a later request of the same
\* socket, dispatched after the error, ended without an error; the socket
\* is still active, registered and in its user's room.
C19_Witness ==
    \E h, g \in Handlers :
        LET c == reqs[h].conn IN
        /\ reqs[h].pc = "done" /\ reqs[h].reply.type = "error" /\ reqs[h].replied
        /\ \E i \in 1..Len(inbox[c]) : inbox[c][i] = reqs[h].reply
        /\ \A d \in Conns \ {c} : \A i \in 1..Len(inbox[d]) :
              inbox[d][i].type # "error"
        /\ reqs[g].conn = c /\ h \in reqs[g].after
        /\ reqs[g].pc = "done" /\ reqs[g].reply.type # "error" /\ reqs[g].replied
        /\ connState[c] = "active" /\ Registered(c)
        /\ getUserRoom(owner[c]) \in rooms[c]

(* ------------------------------- C20 ---------------------------------- *)

\* The send_message event carries no payload, no to_user_id, or a message
\* that is not a string.
MalformedSend(data) ==
    \/ ~HasPayload(data)
    \/ data.to_user_id = NoId
    \/ data.message.kind # "string"

\* C20: a send_message with no payload, without to_user_id or with a
\* message that is not a string ends at once with the error 'Invalid
\* message data', before any query of the store, and persists no row.
C20_MalformedSendInvalidPayload ==
    \A h \in SendHandlers :
        MalformedSend(reqs[h].data) =>
            /\ reqs[h].pc = "done" /\ reqs[h].stage = "sync"
            /\ reqs[h].reply = ErrorEvent("Invalid message data")
            /\ reqs[h].saved = NoRow

(* ------------------------------- C21 ---------------------------------- *)

\* C21: a get_chat_history whose limit is zero or negative is never
\* answered with chat_history and, unless the store rejected a query, ends
\* with the error 'Invalid request data'; a get_chat_history without a
\* limit is answered as one with limit 50 on the table its query read.
C21_NonPositiveLimitRejected ==
    \A g \in HistoryHandlers :
        /\ ( /\ HasPayload(reqs[g].data)
             /\ "limit" \in DOMAIN reqs[g].data
             /\ reqs[g].data.limit <= 0 )
           => /\ reqs[g].reply.type # "chat_history"
              /\ (reqs[g].pc = "done" /\ reqs[g].storeOk) =>
                    reqs[g].reply = ErrorEvent("Invalid request data")
        /\ (Answered(g) /\ "limit" \notin DOMAIN reqs[g].data)
           => reqs[g].reply.messages =
                 getChatHistory(SubSeq(store, 1, reqs[g].snapshot),
                                owner[reqs[g].conn],
                                reqs[g].data.other_user_id, DefaultLimit)

(* ------------------------------- C22 ---------------------------------- *)

C23_CloseUnregistersAndLeavesRooms ==
    [][ \A c \in Conns :
          /\ Disconnecting(c) =>
                /\ rooms'[c] = {}
                /\ \A u \in Users : connectedUsers'[u] # c
                /\ c \notin UNION {LiveSocketsOf(u)' : u \in Users}
          /\ (connState[c] = "terminated" \/ Disconnecting(c)) =>
                inbox'[c] = inbox[c] ]_vars

\* C23 witness: a socket that had joined a chat room has closed; it is in
\* no room and not in the table, and a message sent to its user after it
\* had joined was delivered without reaching it.
C23_Witness ==
    \E c \in Conns : \E j \in Handlers : \E h \in SendHandlers :
        /\ connState[c] = "terminated" /\ owner[c] # NoId
        /\ Joined(j) /\ reqs[j].conn = c /\ reqs[j].replied
        /\ rooms[c] = {} /\ ~Registered(c)
        /\ Succeeded(h) /\ j \in reqs[h].after
        /\ reqs[h].data.to_user_id = owner[c]
        /\ c \notin reqs[h].delivered /\ Received(c, h) = {}

(* ------------------------------- C24 ---------------------------------- *)

\* The sender's socket of handler h has closed
SenderClosed(h) == connState[reqs[h].conn] = "terminated"

\* C24: the close of the sender's socket stops no step of its send
\* handler: with the socket closed, an INSERT that was issued can still be
\* executed and its result can still be handed back; when the handler of a
\* closed socket then delivers, the row is in the table and stays there,
\* every connected socket of the recipient gets one receive_message with
\* the message view, and the client of the closed socket gets nothing.
C24_SenderCloseInFlight ==
    /\ [](\A h \in SendHandlers :
            /\ reqs[h].pc = "create" => ENABLED StoreInsert(h)
            /\ reqs[h].pc = "inserted" => ENABLED SendCreateReturn(h))
    /\ [][ \A h \in Handlers :
             (Delivering(h) /\ SenderClosed(h)) =>
                LET view == MessageEvent("receive_message", reqs[h].conn, reqs[h].data,
                                         reqs[h].recipient, reqs[h].saved)
                IN  /\ RowPersisted(h)
                    /\ store' = store
                    /\ \A c \in LiveSocketsOf(reqs[h].data.to_user_id) :
                          Cardinality(GainedCopies(c, view)) = 1
                    /\ inbox'[reqs[h].conn] = inbox[reqs[h].conn] ]_vars

\* C24 witness: a send whose socket had closed before its handler
\* delivered has ended; its row is in the table, a socket of the recipient
\* holds the receive_message, and the sender's client holds no event for it.
C24_Witness ==
    \E h \in SendHandlers : \E c \in Conns :
        /\ Succeeded(h) /\ ~reqs[h].replied /\ SenderClosed(h)
        /\ RowPersisted(h)
        /\ c \in reqs[h].delivered /\ Received(c, h) # {}
        /\ Acked(reqs[h].conn, h) = {}

(* ------------------------------- C25 ---------------------------------- *)

\* C25: a send handler that was handed its row back and has ended has
\* emitted message_sent on its own socket, whatever the number of sockets
\* its receive_message reached; the sender's client, if the socket was
\* still connected, holds exactly one message_sent for the message, and
\* it carries the same fields as every receive_message delivered for it.
C25_AckIndependentOfRecipient ==
    \A h \in SendHandlers :
        (reqs[h].saved # NoRow /\ reqs[h].pc = "done") =>
            /\ reqs[h].reply.type = "message_sent"
            /\ reqs[h].reply.id = reqs[h].saved.id
            /\ reqs[h].replied =>
                  /\ Cardinality(Acked(reqs[h].conn, h)) = 1
                  /\ \A i \in Acked(reqs[h].conn, h) :
                        inbox[reqs[h].conn][i] = reqs[h].reply
            /\ \A c \in reqs[h].delivered : \A i \in Received(c, h) :
                  [inbox[c][i] EXCEPT !.type = "message_sent"] = reqs[h].reply

\* C25 witness: one send reached no socket and one send reached two
\* sockets of its recipient, and the sender's client holds the
\* message_sent of each.
C25_Witness ==
    \E h1, h2 \in SendHandlers :
        /\ Succeeded(h1) /\ reqs[h1].replied /\ reqs[h1].delivered = {}
        /\ Acked(reqs[h1].conn, h1) # {}
        /\ Succeeded(h2) /\ reqs[h2].replied
        /\ Cardinality(reqs[h2].delivered) = 2
        /\ Acked(reqs[h2].conn, h2) # {}

(* ------------------------------- C26 ---------------------------------- *)

ReplyTypes == {"message_sent", "chat_joined", "chat_history", "error"}

\* The step in which handler h ends
Ending(h) ==
    /\ h \in 1..Len(reqs')
    /\ reqs'[h].pc = "done"
    /\ h <= Len(reqs) => reqs[h].pc # "done"

\* The positions socket c's inbox gains in this step that hold a reply
NewReplies(c) ==
    {i \in (Len(inbox[c]) + 1)..Len(inbox'[c]) : inbox'[c][i].type \in ReplyTypes}

\* C26: with a store that answers every query in the end, every
\* dispatched handler ends, having emitted message_sent, chat_joined,
\* chat_history or error on its socket; and in every step the client of a
\* connected socket gets one reply for each handler of the socket that
\* ends in the step, that handler's reply, and no other reply.
C26_EveryRequestAnswered ==
    /\ \A h \in 1..MaxReqs :
          (h \in Handlers) ~>
             (h \in Handlers /\ reqs[h].pc = "done" /\ reqs[h].reply.type \in ReplyTypes)
    /\ [][ \A c \in Conns :
             connState[c] = "active" =>
                LET ending == {h \in 1..MaxReqs : Ending(h) /\ reqs'[h].conn = c}
                IN  /\ Cardinality(NewReplies(c)) = Cardinality(ending)
                    /\ \A h \in ending :
                          \E i \in NewReplies(c) : inbox'[c][i] = reqs'[h].reply ]_vars

\* C26 witness: on one socket that stayed connected, a request whose store
\* query was rejected ended with an error and a request that went through
\* ended with its reply, and the client holds both.
C26_Witness ==
    \E h, g \in Handlers :
        /\ reqs[h].conn = reqs[g].conn /\ connState[reqs[h].conn] = "active"
        /\ reqs[h].pc = "done" /\ ~reqs[h].storeOk /\ reqs[h].replied
        /\ reqs[h].reply.type = "error"
        /\ reqs[g].pc = "done" /\ reqs[g].storeOk /\ reqs[g].replied
        /\ reqs[g].reply.type \in ReplyTypes \ {"error"}
        /\ Len(inbox[reqs[h].conn]) = 2

(* ------------------------------- C27 ---------------------------------- *)

\* The step in which join handler j ends after its findById resolved
JoinAnswering(j) ==
    /\ reqs[j].kind = "join" /\ reqs[j].pc = "findById"
    /\ reqs'[j].pc = "done" /\ reqs'[j].storeOk

\* C27: when the findById of a join handler resolves, then if
\* other_user_id names no user the handler ends with the error 'User not
\* found' and no socket changes rooms; if it names another user, the socket
\* is added to the chat room of its user and that user and to no other
\* room, and the handler ends with chat_joined carrying that room and the
\* other user's id and username.
C27_JoinNotFoundOrSubscribed ==
    [][ \A j \in Handlers :
          JoinAnswering(j) =>
             LET c == reqs[j].conn
                 other == reqs[j].data.other_user_id
                 chatRoom == getChatRoom(owner[c], other)
             IN  /\ other \notin Users =>
                       /\ reqs'[j].reply = ErrorEvent("User not found")
                       /\ rooms' = rooms
                 /\ (other \in Users /\ other # owner[c]) =>
                       /\ rooms' = [rooms EXCEPT ![c] = @ \cup {chatRoom}]
                       /\ reqs'[j].reply =
                             [type |-> "chat_joined", chat_room |-> chatRoom,
                              other_user |-> [id |-> other,
                                              username |-> Username(other)]]
                 /\ connState[c] = "active" =>
                       inbox'[c] = Append(inbox[c], reqs'[j].reply) ]_vars

\* C27 witness: one socket has asked to join the chat with an id that
\* names no user and the chat with another user; it got 'User not found'
\* and chat_joined, and is in its user's room and that one chat room.
C27_Witness ==
    \E j1, j2 \in Handlers :
        LET c == reqs[j1].conn IN
        /\ reqs[j2].conn = c /\ connState[c] = "active"
        /\ reqs[j1].kind = "join" /\ reqs[j1].pc = "done" /\ reqs[j1].replied
        /\ HasPayload(reqs[j1].data)
        /\ reqs[j1].data.other_user_id = GhostId
        /\ reqs[j1].reply = ErrorEvent("User not found")
        /\ Joined(j2) /\ reqs[j2].replied
        /\ reqs[j2].data.other_user_id \in Users \ {owner[c]}
        /\ rooms[c] = {getUserRoom(owner[c]),
                       getChatRoom(owner[c], reqs[j2].data.other_user_id)}

(* ------------------------------- C28 ---------------------------------- *)

\* C28: the ids of the rows of the messages table are strictly increasing
\* in insertion order (so no two rows share an id), and every step leaves
\* every row the table holds in its place with all its fields, adding rows
\* only at the end.
C28_StoreAppendOnly ==
    /\ [](\A i, j \in 1..Len(store) : i < j => store[i].id < store[j].id)
    /\ [][ /\ Len(store') >= Len(store)
           /\ SubSeq(store', 1, Len(store)) = store ]_vars

\* C28 witness: the table holds two rows, and the first is still the row
\* the send handler that created it was handed back.
C28_Witness ==
    /\ Len(store) = 2
    /\ \E h1, h2 \in SendHandlers :
          /\ Succeeded(h1) /\ Succeeded(h2)
          /\ reqs[h1].saved = store[1]
          /\ reqs[h2].saved = store[2]

(* ------------------------------- C29 ---------------------------------- *)

\* C29: for every receive_message or message_sent a client holds, the
\* history of its sender and recipient holds a message with the event's
\* id, and that message has the event's from_user_id, to_user_id, message
\* and timestamp.
C29_LiveViewEqualsHistory ==
    \A c \in Conns : \A i \in 1..Len(inbox[c]) :
        LET ev == inbox[c][i] IN
        IsMessageEvent(ev) =>
           LET messages == getChatHistory(store, ev.from_user_id,
                                          ev.to_user_id, HugeLimit)
           IN  /\ \E k \in 1..Len(messages) : messages[k].id = ev.id
               /\ \A k \in 1..Len(messages) :
                     messages[k].id = ev.id =>
                        /\ messages[k].from_user_id = ev.from_user_id
                        /\ messages[k].to_user_id = ev.to_user_id
                        /\ messages[k].message = ev.message
                        /\ messages[k].timestamp = ev.timestamp

(* ------------------------------- C30 ---------------------------------- *)

\* C30: whatever limit a get_chat_history asks for, its chat_history
\* answer holds at most DefaultLimit messages (stated for answers that
\* hold no message with an empty body, the subject of C6).
C30_HistoryClamped ==
    \A g \in HistoryHandlers :
        ( /\ Answered(g)
          /\ \A k \in 1..Len(reqs[g].reply.messages) :
                reqs[g].reply.messages[k].message # <<>> )
        => Len(reqs[g].reply.messages) <= DefaultLimit

(* ------------------------------- C31 ---------------------------------- *)

\* A send handler that has ended with an error event
FailedSend(h) ==
    /\ reqs[h].kind = "send" /\ reqs[h].pc = "done"
    /\ reqs[h].reply.type = "error"

\* Handler h takes a step: it is dispatched, or its record changes
Stepping(h) ==
    /\ h \in 1..Len(reqs')
    /\ h <= Len(reqs) => reqs'[h] # reqs[h]

\* C31: a send handler that has ended with an error was never handed a
\* row and its receive_message emit reached no socket; and every step of a
\* send handler other than the execution of its INSERT, so every step of a
\* handler that ends with an error, leaves the messages table unchanged,
\* and every step of a send handler leaves the connectedUsers table and
\* the rooms of every socket unchanged.
C31_FailedSendLeavesNoState ==
    /\ [](\A h \in Handlers :
            FailedSend(h) =>
               /\ reqs[h].saved = NoRow
               /\ reqs[h].delivered = {}
               /\ reqs[h].stage \in {"sync", "findById", "create"})
    /\ [][ \A h \in 1..MaxReqs :
             (Stepping(h) /\ reqs'[h].kind = "send") =>
                /\ reqs'[h].pc # "inserted" => store' = store
                /\ connectedUsers' = connectedUsers
                /\ rooms' = rooms ]_vars

\* C31 witness: a send has failed on a recipient that is not found and a
\* send has failed on a rejected INSERT; the table is empty, and the
\* sender's socket is registered and in its user's room only.
C31_Witness ==
    \E h1, h2 \in SendHandlers :
        /\ FailedSend(h1) /\ reqs[h1].reply = ErrorEvent("Recipient not found")
        /\ FailedSend(h2) /\ reqs[h2].stage = "create" /\ ~reqs[h2].storeOk
        /\ store = <<>>
        /\ Registered(reqs[h2].conn)
        /\ rooms[reqs[h2].conn] = {getUserRoom(owner[reqs[h2].conn])}

(* ------------------------------- C32 ---------------------------------- *)

\* The send handler that was handed back the row with the given id comes
\* from a socket whose token, as presented at admission, carries user id
\* `from`.
SentBy(id, from) ==
    \E h \in SendHandlers :
        /\ reqs[h].saved # NoRow /\ reqs[h].saved.id = id
        /\ handshake[reqs[h].conn].id = from

\* C32: every row of the messages table and every receive_message or
\* message_sent a client holds has as from_user_id the user id of the
\* token the sending socket was admitted with (and, for the events, as
\* from_username its username), whatever the payload of the send held.
C32_SenderNotForgeable ==
    /\ \A k \in 1..Len(store) : SentBy(store[k].id, store[k].from_user_id)
    /\ \A c \in Conns : \A i \in 1..Len(inbox[c]) :
          LET ev == inbox[c][i] IN
          IsMessageEvent(ev) =>
             /\ SentBy(ev.id, ev.from_user_id)
             /\ \A h \in SendHandlers :
                   reqs[h].saved.id = ev.id =>
                      ev.from_username = handshake[reqs[h].conn].username

\* C32 witness: a send whose payload carried a from_user_id naming
\* another user was persisted and delivered to a socket of its recipient.
C32_Witness ==
    \E h \in SendHandlers : \E c \in Conns :
        /\ Succeeded(h)
        /\ "from_user_id" \in DOMAIN reqs[h].data
        /\ reqs[h].data.from_user_id # owner[reqs[h].conn]
        /\ RowPersisted(h)
        /\ Received(c, h) # {}

(* ------------------------------- C33 ---------------------------------- *)

\* C33: every receive_message a client holds is for a message addressed
\* to the user of its socket, and every message_sent it holds is for a
\* message sent by the user of its socket.
C33_NoMisdelivery ==
    \A c \in Conns : \A i \in 1..Len(inbox[c]) :
        LET ev == inbox[c][i] IN
        /\ ev.type = "receive_message" => ev.to_user_id = owner[c]
        /\ ev.type = "message_sent" => ev.from_user_id = owner[c]

\* C33 witness: a message was delivered to a socket of its recipient and
\* acknowledged to its sender while the socket of a third user, connected
\* and in the chat room it had joined with the sender, got nothing of it.
C33_Witness ==
    \E h \in SendHandlers : \E c, d \in Conns :
        /\ Succeeded(h) /\ reqs[h].replied
        /\ c \in reqs[h].delivered /\ Received(c, h) # {}
        /\ owner[c] = reqs[h].data.to_user_id
        /\ Acked(reqs[h].conn, h) # {}
        /\ connState[d] = "active"
        /\ owner[d] \notin {owner[c], owner[reqs[h].conn]}
        /\ \E j \in Handlers : Joined(j) /\ reqs[j].conn = d /\ j \in reqs[h].after
        /\ rooms[d] # {getUserRoom(owner[d])}
        /\ inbox[d] = <<[type |-> "chat_joined",
                         chat_room |-> getChatRoom(owner[d], owner[reqs[h].conn]),
                         other_user |-> [id |-> owner[reqs[h].conn],
                                         username |-> username[reqs[h].conn]]]>>


(* ------------------------------- C34 ---------------------------------- *)

\* C34: every message of every chat_history event a socket's client has
\* received has the socket's admitted user as its from_user_id or its
\* to_user_id, whatever other_user_id and limit the request carried.
C34_HistoryConfidential ==
    \A c \in Conns : \A i \in 1..Len(inbox[c]) :
        inbox[c][i].type = "chat_history" =>
            \A k \in 1..Len(inbox[c][i].messages) :
                owner[c] \in {inbox[c][i].messages[k].from_user_id,
                              inbox[c][i].messages[k].to_user_id}

\* C34 witness: the table holds a message between users 2 and 3, and the
\* socket of user 1 asked for its history with user 2 after that message
\* was stored and received a chat_history without it.
C34_Witness ==
    \E g \in HistoryHandlers : \E h \in SendHandlers :
        /\ Succeeded(h) /\ h \in reqs[g].after
        /\ owner[reqs[g].conn] = 1
        /\ HasPayload(reqs[g].data) /\ reqs[g].data.other_user_id = 2
        /\ \E k \in 1..Len(store) :
              /\ store[k].from_user_id = 2 /\ store[k].to_user_id = 3
              /\ store[k].id = reqs[h].saved.id
        /\ Answered(g)
        /\ \E i \in 1..Len(inbox[reqs[g].conn]) :
              inbox[reqs[g].conn][i] = HistoryEvent(2, <<>>)


(* ------------------------------- C35 ---------------------------------- *)

\* C35: every entry of connectedUsers names a socket that is connected and
\* was admitted as the user the entry is keyed under (so no socket that
\* has disconnected is listed, and no socket is listed under two keys);
\* the Map holds at most one entry per user id by construction.
C35_NoStaleEntries ==
    \A u \in Users :
        connectedUsers[u] # NoConn =>
            /\ connState[connectedUsers[u]] = "active"
            /\ owner[connectedUsers[u]] = u

\* C35 witness: a socket of user 1 has disconnected, another socket of
\* user 1 connected after it is the one listed under key 1, and user 2,
\* whose socket has disconnected, has no entry.
C35_Witness ==
    /\ connState["c1"] = "terminated" /\ owner["c1"] = 1
    /\ connState["c3"] = "active" /\ owner["c3"] = 1
    /\ connectedUsers[1] = "c3"
    /\ connState["c2"] = "terminated" /\ owner["c2"] = 2
    /\ connectedUsers[2] = NoConn

====
